---- MODULE Spec2Model ----
(***************************************************************************)
(* Model of src/service_discovery.rs: ServiceDiscovery::lookup_topic,      *)
(* lookup_partitioned_topic_number and lookup_partitioned_topic.           *)
(*                                                                         *)
(* Every async fn is a state machine whose control points are its .await   *)
(* expressions; one action resolves one await and runs the synchronous     *)
(* code that follows it up to the next await or return.                    *)
(*                                                                         *)
(* Option<T> is a set with at most one element.                            *)
(***************************************************************************)
EXTENDS Integers, Sequences, FiniteSets, TLC

None == {}
Some(x) == {x}
Unwrap(o) == CHOOSE x \in o : TRUE
UnwrapOr(o, d) == IF o = None THEN d ELSE Unwrap(o)

(* ------------------------------ bounds --------------------------------- *)
\* largest partition count the server reports
MaxPartitions == 2
\* Redirect responses the server gives to one lookup_topic call
MaxRedirects == 1
\* requests and redirects of an endless chain that are still counted
MaxCounted == 3
\* times the connection drops (Disconnected) during one call
MaxDisconnects == 1
\* ServiceNotReady, Redirect and Disconnected events during one fan-out
MaxFanEvents == 2

(* ----------------------------- constants ------------------------------- *)
\* lookup_topic: let mut max_retries = 20u8;
MaxRetries == 20
\* lookup_partitioned_topic_number: let mut max_retries = 20u8;
MaxRetriesNumber == 20
\* lookup_topic: Exe::delay(Duration::from_millis(500))
DelayMillis == 500
\* lookup_partitioned_topic_number: Exe::delay(Duration::from_millis(500))
NDelayMillis == 500

\* indices of the lookup_topic calls that can run: (0..partitions)
Flows == 0 .. (MaxPartitions - 1)

(* ------------------------------- URLs ---------------------------------- *)
\* url::Url, as far as the code reads it: host_str() and port()
Url(text, host, port) == [text |-> text, host |-> host, port |-> port]

UrlWithPort == "pulsar://a:6650"
UrlNoPort == "pulsar://b"
UrlNoHost == "mailto:x"
UrlInvalid == "not a url"
UrlStrings == {UrlWithPort, UrlNoPort, UrlNoHost, UrlInvalid}

\* Url::parse on the strings above: Err is None
UrlParse(s) ==
    CASE s = UrlWithPort -> Some(Url(s, Some("a"), Some(6650)))
      [] s = UrlNoPort -> Some(Url(s, Some("b"), None))
      [] s = UrlNoHost -> Some(Url(s, None, None))
      [] OTHER -> None

\* self.manager.url
base_url == Url("pulsar://base:6650", Some("base"), Some(6650))

BrokerAddress(url, broker_url, proxy) ==
    [url |-> url, broker_url |-> broker_url, proxy |-> proxy]

\* self.manager.get_base_address()
get_base_address == BrokerAddress(base_url, "base:6650", FALSE)

\* format!("{}:{}", host, port)
HostPort(host, port) == host \o ":" \o ToString(port)

(* ---------------------------- connections ------------------------------ *)
BaseConnection == [base |-> TRUE, address |-> get_base_address]
\* the connection get_connection(&address) yields
ConnectionTo(address) == [base |-> FALSE, address |-> address]

ConnectionErrors == {"Disconnected", "Io"}

(* ----------------------------- responses ------------------------------- *)
ServerErrorCodes == {"ServiceNotReady", "MetadataError", "Unrecognized"}
Messages == {"msg"}

\* crate::error::server_error: i32 -> Option<ServerError>
server_error(code) == IF code = "Unrecognized" THEN None ELSE Some(code)

Opt(S) == {None} \cup {Some(x) : x \in S}

\* CommandLookupTopicResponse
LookupTopicResponse(response, error, message, url, url_tls, proxy, authoritative) ==
    [response |-> response, error |-> error, message |-> message,
     broker_service_url |-> url, broker_service_url_tls |-> url_tls,
     proxy_through_service_url |-> proxy, authoritative |-> authoritative]

\* responses with no lookup type or lookup type Failed
LookupFailures ==
    {LookupTopicResponse(t, e, m, u, None, None, None) :
        t \in {None, Some("Failed")}, e \in Opt(ServerErrorCodes),
        m \in Opt(Messages), u \in {None, Some(UrlWithPort)}}

\* Connect and Redirect responses that carry a broker service URL
LookupAnswers ==
    {LookupTopicResponse(t, None, None, Some(u), v, p, a) :
        t \in {Some("Connect"), Some("Redirect")}, u \in UrlStrings,
        v \in Opt(UrlStrings), p \in Opt(BOOLEAN), a \in Opt(BOOLEAN)}

\* Connect and Redirect responses without a broker service URL
LookupNoUrl ==
    {LookupTopicResponse(t, e, m, None, v, None, None) :
        t \in {Some("Connect"), Some("Redirect")}, e \in Opt(ServerErrorCodes),
        m \in Opt(Messages), v \in {None, Some(UrlWithPort)}}

LookupResponses == LookupFailures \cup LookupAnswers \cup LookupNoUrl

(* ------------------- lookup_topic: synchronous code -------------------- *)
\* response.response.is_none() || response.response == Some(LookupType::Failed)
IsFailed(r) == r.response = None \/ r.response = Some("Failed")

\* response.error.and_then(crate::error::server_error)
DecodeError(r) == IF r.error = None THEN None ELSE server_error(Unwrap(r.error))

\* mutant: the last unit of the budget is never spent
ShouldRetryOffByOne(error, retries) ==
    error = Some("ServiceNotReady") /\ retries > 1

\* mutant: every decoded server error is retried while budget remains
ShouldRetryAnyError(error, retries) == error # None /\ retries > 0

\* error == Some(ServiceNotReady) && max_retries > 0
ShouldRetry(error, retries) == error = Some("ServiceNotReady") /\ retries > 0

\* struct LookupResponse
LookupResponse(broker_url, broker_url_tls, proxy, redirect, authoritative) ==
    [broker_url |-> broker_url, broker_url_tls |-> broker_url_tls,
     proxy |-> proxy, redirect |-> redirect, authoritative |-> authoritative]

\* fn convert_lookup_response: None is Err(NotFound)
convert_lookup_response(r) ==
    LET proxy == UnwrapOr(r.proxy_through_service_url, FALSE)
        authoritative == UnwrapOr(r.authoritative, FALSE)
        redirect == r.response = Some("Redirect")
    IN  IF r.broker_service_url = None THEN None
        ELSE LET broker_url == UrlParse(Unwrap(r.broker_service_url))
             IN  IF broker_url = None THEN None
                 ELSE IF r.broker_service_url_tls = None
                 THEN Some(LookupResponse(Unwrap(broker_url), None,
                                          proxy, redirect, authoritative))
                 ELSE LET tls == UrlParse(Unwrap(r.broker_service_url_tls))
                      IN  IF tls = None THEN None
                          ELSE Some(LookupResponse(Unwrap(broker_url), tls,
                                                   proxy, redirect, authoritative))

\* broker_url_tls.clone().unwrap_or_else(|| broker_url.clone())
connection_url(lr) == UnwrapOr(lr.broker_url_tls, lr.broker_url)

\* mutant: only the proxy flag of the response selects the base URL
AddressUrlOfResponse(proxied, lr) ==
    IF lr.proxy THEN base_url ELSE connection_url(lr)

\* if proxied_query || proxy { base_url } else { connection_url }
AddressUrl(proxied, lr) ==
    IF proxied \/ lr.proxy THEN base_url ELSE connection_url(lr)

\* mutant: the proxy flag of the chain is forgotten
AddressProxyOfResponse(proxied, lr) == lr.proxy

\* proxy: proxied_query || proxy
AddressProxy(proxied, lr) == proxied \/ lr.proxy

\* host_str().unwrap() of the URL the match arm reads panics on a URL without host
BrokerUrlPanics(lr) ==
    IF lr.broker_url_tls # None
    THEN Unwrap(lr.broker_url_tls).host = None
    ELSE lr.broker_url.host = None

\* mutant: the default ports of the two arms are exchanged
BrokerUrlSwappedPorts(lr) ==
    IF lr.broker_url_tls # None
    THEN LET u == Unwrap(lr.broker_url_tls)
         IN  HostPort(Unwrap(u.host), UnwrapOr(u.port, 6650))
    ELSE HostPort(Unwrap(lr.broker_url.host), UnwrapOr(lr.broker_url.port, 6651))

\* the match on broker_url_tls building "host:port"
BrokerUrl(lr) ==
    IF lr.broker_url_tls # None
    THEN LET u == Unwrap(lr.broker_url_tls)
         IN  HostPort(Unwrap(u.host), UnwrapOr(u.port, 6651))
    ELSE HostPort(Unwrap(lr.broker_url.host), UnwrapOr(lr.broker_url.port, 6650))

\* broker_address = BrokerAddress { url, broker_url, proxy: proxied_query || proxy }
NewBrokerAddress(proxied, lr) ==
    BrokerAddress(AddressUrl(proxied, lr), BrokerUrl(lr), AddressProxy(proxied, lr))

(* ------------------------------ results -------------------------------- *)
\* Result<BrokerAddress, ServiceDiscoveryError>
Result(kind, address, cause, error, message) ==
    [kind |-> kind, address |-> address, cause |-> cause,
     error |-> error, message |-> message]
OkAddress(a) == Result("Ok", Some(a), None, None, None)
ErrConnection(e) == Result("Connection", None, Some(e), None, None)
ErrQuery(error, message) == Result("Query", None, None, error, message)
ErrNotFound == Result("NotFound", None, None, None, None)

(* ------------------------------- state --------------------------------- *)
VARIABLES
    \* locals of the lookup_topic call of each flow
    pc, topic, conn, is_authoritative, proxied_query, broker_address,
    max_retries, response, result,
    \* the lookup request each flow sent last: connection, topic, flag
    request,
    \* what happened to each flow so far (delay_ms: time spent in Exe::delay)
    nRequests, nResponses, nRedirects, nDisconnects, nNotReady, delay_ms,
    proxy_seen,
    \* the outcome of the last get_connection(&broker_address) of each flow:
    \* the address when it succeeded, None when it failed or none was made
    acquired,
    \* locals of the lookup_partitioned_topic_number call
    n_pc, connection, n_max_retries, n_response, n_result,
    \* what happened to that call so far
    n_requests, n_connects, n_disconnects, n_not_ready, n_delay_ms,
    \* lookup_partitioned_topic: the count awaited, then the join
    p_pc, partitions, p_result,
    \* ServiceNotReady, Redirect and Disconnected events of the fan-out so far
    fanEvents

flowVars == <<pc, topic, conn, is_authoritative, proxied_query, broker_address,
              max_retries, response, result, request, nRequests, nResponses,
              nRedirects, nDisconnects, nNotReady, delay_ms, proxy_seen, acquired>>
numberVars == <<n_pc, connection, n_max_retries, n_response, n_result,
                n_requests, n_connects, n_disconnects, n_not_ready, n_delay_ms>>
outerVars == <<p_pc, partitions, p_result>>

\* the locals of flow i as one record
Local(i) ==
    [pc |-> pc[i], topic |-> topic[i], conn |-> conn[i],
     is_authoritative |-> is_authoritative[i], proxied_query |-> proxied_query[i],
     broker_address |-> broker_address[i], max_retries |-> max_retries[i],
     response |-> response[i], result |-> result[i], request |-> request[i],
     nRequests |-> nRequests[i], nResponses |-> nResponses[i],
     nRedirects |-> nRedirects[i],
     nDisconnects |-> nDisconnects[i], nNotReady |-> nNotReady[i],
     delay_ms |-> delay_ms[i], proxy_seen |-> proxy_seen[i],
     acquired |-> acquired[i]]

\* mutant: the retry budget is a field of ServiceDiscovery, shared by its calls
ApplySharedBudget(i, l) ==
    /\ pc' = [pc EXCEPT ![i] = l.pc]
    /\ topic' = [topic EXCEPT ![i] = l.topic]
    /\ conn' = [conn EXCEPT ![i] = l.conn]
    /\ is_authoritative' = [is_authoritative EXCEPT ![i] = l.is_authoritative]
    /\ proxied_query' = [proxied_query EXCEPT ![i] = l.proxied_query]
    /\ broker_address' = [broker_address EXCEPT ![i] = l.broker_address]
    /\ max_retries' = [j \in Flows |-> l.max_retries]
    /\ response' = [response EXCEPT ![i] = l.response]
    /\ result' = [result EXCEPT ![i] = l.result]
    /\ request' = [request EXCEPT ![i] = l.request]
    /\ nRequests' = [nRequests EXCEPT ![i] = l.nRequests]
    /\ nResponses' = [nResponses EXCEPT ![i] = l.nResponses]
    /\ nRedirects' = [nRedirects EXCEPT ![i] = l.nRedirects]
    /\ nDisconnects' = [nDisconnects EXCEPT ![i] = l.nDisconnects]
    /\ nNotReady' = [nNotReady EXCEPT ![i] = l.nNotReady]
    /\ delay_ms' = [delay_ms EXCEPT ![i] = l.delay_ms]
    /\ proxy_seen' = [proxy_seen EXCEPT ![i] = l.proxy_seen]
    /\ acquired' = [acquired EXCEPT ![i] = l.acquired]

\* flow i continues with locals l, the other flows keep theirs
Apply(i, l) ==
    /\ pc' = [pc EXCEPT ![i] = l.pc]
    /\ topic' = [topic EXCEPT ![i] = l.topic]
    /\ conn' = [conn EXCEPT ![i] = l.conn]
    /\ is_authoritative' = [is_authoritative EXCEPT ![i] = l.is_authoritative]
    /\ proxied_query' = [proxied_query EXCEPT ![i] = l.proxied_query]
    /\ broker_address' = [broker_address EXCEPT ![i] = l.broker_address]
    /\ max_retries' = [max_retries EXCEPT ![i] = l.max_retries]
    /\ response' = [response EXCEPT ![i] = l.response]
    /\ result' = [result EXCEPT ![i] = l.result]
    /\ request' = [request EXCEPT ![i] = l.request]
    /\ nRequests' = [nRequests EXCEPT ![i] = l.nRequests]
    /\ nResponses' = [nResponses EXCEPT ![i] = l.nResponses]
    /\ nRedirects' = [nRedirects EXCEPT ![i] = l.nRedirects]
    /\ nDisconnects' = [nDisconnects EXCEPT ![i] = l.nDisconnects]
    /\ nNotReady' = [nNotReady EXCEPT ![i] = l.nNotReady]
    /\ delay_ms' = [delay_ms EXCEPT ![i] = l.delay_ms]
    /\ proxy_seen' = [proxy_seen EXCEPT ![i] = l.proxy_seen]
    /\ acquired' = [acquired EXCEPT ![i] = l.acquired]

\* the locals of a lookup_topic(t) call before its first await
NewLookup(t, label) ==
    [pc |-> label, topic |-> t, conn |-> BaseConnection,
     is_authoritative |-> FALSE, proxied_query |-> FALSE,
     broker_address |-> get_base_address, max_retries |-> MaxRetries,
     response |-> None, result |-> None, request |-> None,
     nRequests |-> 0, nResponses |-> 0, nRedirects |-> 0, nDisconnects |-> 0,
     nNotReady |-> 0,
     delay_ms |-> 0, proxy_seen |-> FALSE, acquired |-> None]

\* a flow no call runs in
Idle == NewLookup("", "idle")

(* --------------------- lookup_topic: steps of a flow ------------------- *)
\* conn.sender().lookup_topic(topic.to_string(), is_authoritative)
Sent(l, label) ==
    [l EXCEPT !.pc = label,
              !.request = Some([conn |-> l.conn, topic |-> l.topic,
                                is_authoritative |-> l.is_authoritative]),
              !.nRequests = @ + 1]

\* return / break res
Return(l, res) == [l EXCEPT !.pc = "done", !.result = Some(res)]

\* mutant: a retry starts over as a fresh, non-authoritative query
HandleFailureResetsFlag(l, r) ==
    LET error == DecodeError(r)
        seen == IF error = Some("ServiceNotReady") THEN l.nNotReady + 1
                ELSE l.nNotReady
    IN  IF ShouldRetry(error, l.max_retries)
        THEN [l EXCEPT !.max_retries = @ - 1, !.pc = "delay", !.nNotReady = seen,
                       !.is_authoritative = FALSE]
        ELSE Return([l EXCEPT !.nNotReady = seen], ErrQuery(error, r.message))

\* the failed branch: retry after the delay, or Err(Query(error, message))
HandleFailure(l, r) ==
    LET error == DecodeError(r)
        seen == IF error = Some("ServiceNotReady") THEN l.nNotReady + 1
                ELSE l.nNotReady
    IN  IF ShouldRetry(error, l.max_retries)
        THEN [l EXCEPT !.max_retries = @ - 1, !.pc = "delay", !.nNotReady = seen]
        ELSE Return([l EXCEPT !.nNotReady = seen], ErrQuery(error, r.message))

\* mutant: is_authoritative is not taken from the response
HandleAnswerKeepsFlag(l, lr) ==
    LET l1 == [l EXCEPT !.proxy_seen = @ \/ lr.proxy]
    IN  IF BrokerUrlPanics(lr) THEN [l1 EXCEPT !.pc = "panicked"]
        ELSE [l1 EXCEPT !.broker_address = NewBrokerAddress(l.proxied_query, lr),
                        !.nRedirects = IF lr.redirect THEN @ + 1 ELSE @,
                        !.pc = IF lr.redirect THEN "redirect_connect"
                               ELSE "final_connect"]

\* mutant: a redirect hop costs one unit of the retry budget and fails at zero
HandleAnswerCountsHops(l, lr) ==
    LET l1 == [l EXCEPT !.is_authoritative = lr.authoritative,
                        !.proxy_seen = @ \/ lr.proxy]
    IN  IF BrokerUrlPanics(lr) THEN [l1 EXCEPT !.pc = "panicked"]
        ELSE IF lr.redirect /\ l.max_retries = 0 THEN Return(l1, ErrNotFound)
        ELSE [l1 EXCEPT !.broker_address = NewBrokerAddress(l.proxied_query, lr),
                        !.max_retries = IF lr.redirect THEN @ - 1 ELSE @,
                        !.nRedirects = IF lr.redirect THEN @ + 1 ELSE @,
                        !.pc = IF lr.redirect THEN "redirect_connect"
                               ELSE "final_connect"]

\* the code after convert_lookup_response succeeded, up to the next await
HandleAnswer(l, lr) ==
    LET l1 == [l EXCEPT !.is_authoritative = lr.authoritative,
                        !.proxy_seen = @ \/ lr.proxy]
    IN  IF BrokerUrlPanics(lr) THEN [l1 EXCEPT !.pc = "panicked"]
        ELSE [l1 EXCEPT !.broker_address = NewBrokerAddress(l.proxied_query, lr),
                        !.nRedirects = IF lr.redirect THEN @ + 1 ELSE @,
                        !.pc = IF lr.redirect THEN "redirect_connect"
                               ELSE "final_connect"]

\* mutant: a response that cannot be converted is reported as a Query error
HandleLookupQueryOnMissing(l, r) ==
    LET l1 == [l EXCEPT !.response = Some(r), !.nResponses = @ + 1]
    IN  IF IsFailed(r) THEN HandleFailure(l1, r)
        ELSE LET lr == convert_lookup_response(r)
             IN  IF lr = None THEN Return(l1, ErrQuery(DecodeError(r), r.message))
                 ELSE HandleAnswer(l1, Unwrap(lr))

\* the loop body from the response to the next await
HandleLookup(l, r) ==
    LET l1 == [l EXCEPT !.response = Some(r), !.nResponses = @ + 1]
    IN  IF IsFailed(r) THEN HandleFailure(l1, r)
        ELSE LET lr == convert_lookup_response(r)
             IN  IF lr = None THEN Return(l1, ErrNotFound)
                 ELSE HandleAnswer(l1, Unwrap(lr))

\* lookup_topic is polled: called directly, or by the pending try_join_all
Polled(i) == p_pc \in {"direct", "join"}

(* ---------------------- lookup_partitioned_topic ----------------------- *)
\* mutant: partitions are numbered from one
PartitionNameFromOne(t, nb) == t \o "-partition-" \o ToString(nb + 1)

\* format!("{}-partition-{}", topic, nb)
PartitionName(t, nb) == t \o "-partition-" \o ToString(nb)

\* Result<Vec<(String, BrokerAddress)>, ServiceDiscoveryError>
PResult(kind, list, cause, error, message) ==
    [kind |-> kind, list |-> list, cause |-> cause,
     error |-> error, message |-> message]

\* Err(e) => Err(e)
MapErr(res) == PResult(res.kind, <<>>, res.cause, res.error, res.message)

\* Ok(address) => Ok((t, address))
MapOk(t, res) == <<t, Unwrap(res.address)>>

Launched == IF partitions = None THEN {} ELSE 0 .. (Unwrap(partitions) - 1)

\* mutant: failed lookups are left out of the list (join_all, then filter)
TryJoinAllSkipsFailures ==
    IF p_pc # "join" THEN UNCHANGED outerVars
    ELSE /\ partitions' = partitions
         /\ IF \E i \in Launched : pc'[i] = "panicked"
            THEN p_pc' = "panicked" /\ p_result' = None
            ELSE IF \A i \in Launched : result'[i] # None
            THEN LET kept[k \in 0 .. Cardinality(Launched)] ==
                         IF k = 0 THEN <<>>
                         ELSE IF Unwrap(result'[k - 1]).kind = "Ok"
                         THEN Append(kept[k - 1],
                                     MapOk(topic'[k - 1], Unwrap(result'[k - 1])))
                         ELSE kept[k - 1]
                 IN  /\ p_pc' = "done"
                     /\ p_result' = Some(PResult("Ok", kept[Cardinality(Launched)],
                                                 None, None, None))
            ELSE p_pc' = p_pc /\ p_result' = p_result

\* mutant: the join waits for every lookup, then reports the first error by index
TryJoinAllWaitsForAll ==
    IF p_pc # "join" THEN UNCHANGED outerVars
    ELSE /\ partitions' = partitions
         /\ IF \E i \in Launched : pc'[i] = "panicked"
            THEN p_pc' = "panicked" /\ p_result' = None
            ELSE IF \E i \in Launched : result'[i] = None
            THEN p_pc' = p_pc /\ p_result' = p_result
            ELSE IF \E i \in Launched : Unwrap(result'[i]).kind # "Ok"
            THEN LET i == CHOOSE j \in Launched :
                              /\ Unwrap(result'[j]).kind # "Ok"
                              /\ \A k \in Launched :
                                    Unwrap(result'[k]).kind # "Ok" => j <= k
                 IN  p_pc' = "done" /\ p_result' = Some(MapErr(Unwrap(result'[i])))
            ELSE /\ p_pc' = "done"
                 /\ p_result' = Some(PResult("Ok",
                        [k \in 1 .. Cardinality(Launched) |->
                            MapOk(topic'[k - 1], Unwrap(result'[k - 1]))],
                        None, None, None))

\* try_join_all(topics).await, polled after a step of one of its futures
TryJoinAll ==
    IF p_pc # "join" THEN UNCHANGED outerVars
    ELSE /\ partitions' = partitions
         /\ IF \E i \in Launched : pc'[i] = "panicked"
            THEN p_pc' = "panicked" /\ p_result' = None
            ELSE IF \E i \in Launched :
                        result'[i] # None /\ Unwrap(result'[i]).kind # "Ok"
            THEN LET i == CHOOSE j \in Launched :
                              result'[j] # None /\ Unwrap(result'[j]).kind # "Ok"
                 IN  p_pc' = "done" /\ p_result' = Some(MapErr(Unwrap(result'[i])))
            ELSE IF \A i \in Launched : result'[i] # None
            THEN /\ p_pc' = "done"
                 /\ p_result' = Some(PResult("Ok",
                        [k \in 1 .. Cardinality(Launched) |->
                            MapOk(topic'[k - 1], Unwrap(result'[k - 1]))],
                        None, None, None))
            ELSE p_pc' = p_pc /\ p_result' = p_result

\* a step of flow i, then the poll of the join that owns it
Step(i, l) ==
    \E next \in {l} :
        /\ Apply(i, next)
        /\ TryJoinAll
        /\ UNCHANGED numberVars
        /\ fanEvents' = IF p_pc = "join"
                           /\ \/ next.nNotReady # nNotReady[i]
                              \/ next.nRedirects # nRedirects[i]
                              \/ next.nDisconnects # nDisconnects[i]
                        THEN fanEvents + 1 ELSE fanEvents
        /\ fanEvents' <= MaxFanEvents

\* mutant: every hop starts with a fresh retry budget
FollowRedirectResetsBudget(l) ==
    Sent([l EXCEPT !.conn = ConnectionTo(l.broker_address),
                   !.proxied_query = l.broker_address.proxy,
                   !.response = None,
                   !.acquired = Some(l.broker_address),
                   !.max_retries = MaxRetries],
         "await_lookup")

\* conn = get_connection(&broker_address).await?; proxied_query =
\* broker_address.proxy; continue, and the next request is sent
FollowRedirect(l) ==
    Sent([l EXCEPT !.conn = ConnectionTo(l.broker_address),
                   !.proxied_query = l.broker_address.proxy,
                   !.response = None,
                   !.acquired = Some(l.broker_address)],
         "await_lookup")

(* ----------------------- lookup_topic: actions ------------------------- *)
\* self.manager.get_base_connection().await? succeeds; first request sent
GetBaseConnectionOk(i) ==
    /\ Polled(i) /\ pc[i] = "get_base_connection"
    /\ Step(i, Sent([NewLookup(topic[i], "start") EXCEPT !.conn = BaseConnection],
                    "await_lookup"))

GetBaseConnectionErr(i, e) ==
    /\ Polled(i) /\ pc[i] = "get_base_connection"
    /\ Step(i, Return(Local(i), ErrConnection(e)))

\* Ok(res) => res, of the first send or of the re-send, then the loop body;
\* the server answers with one of `answers`
RecvLookupResponse(i, answers) ==
    /\ Polled(i) /\ pc[i] \in {"await_lookup", "await_relookup"}
    /\ \E r \in answers, l \in {Local(i)} :
          /\ r.response = Some("Redirect") => nRedirects[i] < MaxRedirects
          /\ Step(i, HandleLookup(l, r))

\* Err(ConnectionError::Disconnected) of the first send
LookupDisconnected(i) ==
    /\ Polled(i) /\ pc[i] = "await_lookup"
    /\ nDisconnects[i] < MaxDisconnects
    /\ Step(i, [Local(i) EXCEPT !.pc = "reconnect", !.nDisconnects = @ + 1])

\* Err(e) => return Err(e.into()) of the first send; `?` of the re-send
LookupSendErr(i, e) ==
    /\ Polled(i)
    /\ \/ pc[i] = "await_lookup" /\ e # "Disconnected"
       \/ pc[i] = "await_relookup"
    /\ Step(i, Return(Local(i), ErrConnection(e)))

\* mutant: the reconnect takes the base connection
ReconnectOkBase(i) ==
    /\ Polled(i) /\ pc[i] = "reconnect"
    /\ Step(i, Sent([Local(i) EXCEPT !.conn = BaseConnection], "await_relookup"))

\* conn = self.manager.get_connection(&broker_address).await?; re-send
ReconnectOk(i) ==
    /\ Polled(i) /\ pc[i] = "reconnect"
    /\ Step(i, Sent([Local(i) EXCEPT !.conn = ConnectionTo(broker_address[i]),
                                     !.acquired = Some(broker_address[i])],
                    "await_relookup"))

ReconnectErr(i, e) ==
    /\ Polled(i) /\ pc[i] = "reconnect"
    /\ Step(i, Return([Local(i) EXCEPT !.acquired = None], ErrConnection(e)))

\* Exe::delay(Duration::from_millis(500)).await; continue
DelayElapsed(i) ==
    /\ Polled(i) /\ pc[i] = "delay"
    /\ Step(i, Sent([Local(i) EXCEPT !.response = None, !.delay_ms = @ + DelayMillis],
                    "await_lookup"))

\* if redirect { conn = get_connection(&broker_address).await?; ...; continue }
RedirectConnectOk(i) ==
    /\ Polled(i) /\ pc[i] = "redirect_connect"
    /\ Step(i, FollowRedirect(Local(i)))

RedirectConnectErr(i, e) ==
    /\ Polled(i) /\ pc[i] = "redirect_connect"
    /\ Step(i, Return([Local(i) EXCEPT !.acquired = None], ErrConnection(e)))

\* else { get_connection(&broker_address).await.map(|_| broker_address) }
FinalConnectOk(i) ==
    /\ Polled(i) /\ pc[i] = "final_connect"
    /\ Step(i, Return([Local(i) EXCEPT !.acquired = Some(broker_address[i])],
                       OkAddress(broker_address[i])))

\* mutant: the outcome of the acquisition is dropped (.ok()), the address returned
FinalConnectErrIgnored(i, e) ==
    /\ Polled(i) /\ pc[i] = "final_connect"
    /\ Step(i, Return([Local(i) EXCEPT !.acquired = None],
                       OkAddress(broker_address[i])))

\* .map_err(ServiceDiscoveryError::Connection)
FinalConnectErr(i, e) ==
    /\ Polled(i) /\ pc[i] = "final_connect"
    /\ Step(i, Return([Local(i) EXCEPT !.acquired = None], ErrConnection(e)))


(* ------------------ lookup_partitioned_topic_number -------------------- *)
\* CommandPartitionedTopicMetadataResponse
MetadataResponse(count, kind, error, message) ==
    [partitions |-> count, response |-> kind, error |-> error,
     message |-> message]

MetadataResponses ==
    {MetadataResponse(n, t, e, m) :
        n \in Opt(0 .. MaxPartitions), t \in Opt({"Success", "Failed"}),
        e \in Opt(ServerErrorCodes), m \in Opt(Messages)}

\* Result<u32, ServiceDiscoveryError>
NResult(kind, count, cause, error, message) ==
    [kind |-> kind, partitions |-> count, cause |-> cause,
     error |-> error, message |-> message]

NLocal ==
    [n_pc |-> n_pc, connection |-> connection, n_max_retries |-> n_max_retries,
     n_response |-> n_response, n_result |-> n_result,
     n_requests |-> n_requests, n_connects |-> n_connects,
     n_disconnects |-> n_disconnects, n_not_ready |-> n_not_ready,
     n_delay_ms |-> n_delay_ms]

\* the locals of lookup_partitioned_topic_number before its first await
NewNumber(label) ==
    [n_pc |-> label, connection |-> BaseConnection,
     n_max_retries |-> MaxRetriesNumber, n_response |-> None, n_result |-> None,
     n_requests |-> 0, n_connects |-> 0, n_disconnects |-> 0, n_not_ready |-> 0,
     n_delay_ms |-> 0]

NApply(l) ==
    /\ n_pc' = l.n_pc
    /\ connection' = l.connection
    /\ n_max_retries' = l.n_max_retries
    /\ n_response' = l.n_response
    /\ n_result' = l.n_result
    /\ n_requests' = l.n_requests
    /\ n_connects' = l.n_connects
    /\ n_disconnects' = l.n_disconnects
    /\ n_not_ready' = l.n_not_ready
    /\ n_delay_ms' = l.n_delay_ms

\* connection.sender().lookup_partitioned_topic(&topic)
NSent(l, label) == [l EXCEPT !.n_pc = label, !.n_requests = @ + 1]

NReturn(l, res) == [l EXCEPT !.n_pc = "done", !.n_result = Some(res)]

\* response.response.is_none() || response.response == Some(LookupType::Failed)
NIsFailed(r) == r.response = None \/ r.response = Some("Failed")

\* mutant: the last unit of the budget is never spent
NShouldRetryOffByOne(error, retries) ==
    error = Some("ServiceNotReady") /\ retries > 1

\* error == Some(ServiceNotReady) && max_retries > 0
NShouldRetry(error, retries) == error = Some("ServiceNotReady") /\ retries > 0

\* mutant: a missing count is read as zero partitions (unwrap_or_default)
PartitionsResultDefault(r) ==
    IF r.partitions # None
    THEN NResult("Ok", r.partitions, None, None, None)
    ELSE NResult("Ok", Some(0), None, None, None)

\* match response.partitions { Some(partitions) => Ok, None => Err(Query(..)) }
PartitionsResult(r) ==
    IF r.partitions # None
    THEN NResult("Ok", r.partitions, None, None, None)
    ELSE NResult("Query", None, None, DecodeError(r), r.message)

\* the loop body from the response on, and the match after the loop
NHandle(l, r) ==
    LET l1 == [l EXCEPT !.n_response = Some(r)]
        error == DecodeError(r)
        seen == IF NIsFailed(r) /\ error = Some("ServiceNotReady")
                THEN l.n_not_ready + 1 ELSE l.n_not_ready
    IN  IF NIsFailed(r)
        THEN IF NShouldRetry(error, l.n_max_retries)
             THEN [l1 EXCEPT !.n_max_retries = @ - 1, !.n_pc = "delay",
                             !.n_not_ready = seen]
             ELSE NReturn([l1 EXCEPT !.n_not_ready = seen],
                          NResult("Query", None, None, error, r.message))
        ELSE NReturn(l1, PartitionsResult(r))

\* the call is polled: made directly, or awaited by lookup_partitioned_topic
NPolled == p_pc \in {"count_direct", "count"}

\* mutant: a failed count is read as no partitions (unwrap_or(0))
AfterCountSwallowsError(l) ==
    IF p_pc # "count" \/ l.n_pc # "done"
    THEN /\ NApply(l)
         /\ UNCHANGED <<flowVars, outerVars>>
    ELSE LET res == Unwrap(l.n_result)
             n == IF res.kind = "Ok" THEN Unwrap(res.partitions) ELSE 0
             started == [i \in Flows |->
                            IF i < n
                            THEN NewLookup(PartitionName("t", i), "get_base_connection")
                            ELSE Idle]
         IN  \* the locals of the returned call are gone, its result is kept
             /\ NApply([NewNumber("done") EXCEPT !.n_result = l.n_result])
             /\ IF res.kind # "Ok"
                THEN /\ p_pc' = "done"
                     /\ partitions' = None
                     /\ p_result' = Some(PResult("Ok", <<>>, None, None, None))
                     /\ UNCHANGED flowVars
                ELSE /\ partitions' = res.partitions
                     /\ p_pc' = IF n = 0 THEN "done" ELSE "join"
                     /\ p_result' = IF n = 0
                                    THEN Some(PResult("Ok", <<>>, None, None, None))
                                    ELSE None
                     /\ pc' = [i \in Flows |-> started[i].pc]
                     /\ topic' = [i \in Flows |-> started[i].topic]
                     /\ UNCHANGED <<conn, is_authoritative, proxied_query,
                                    broker_address, max_retries, response, result,
                                    request, nRequests, nResponses, nRedirects,
                                    nDisconnects,
                                    nNotReady, delay_ms, proxy_seen, acquired>>

\* let partitions = self.lookup_partitioned_topic_number(&topic).await?;
\* then the futures are built and try_join_all polls each for the first time
AfterCount(l) ==
    IF p_pc # "count" \/ l.n_pc # "done"
    THEN /\ NApply(l)
         /\ UNCHANGED <<flowVars, outerVars>>
    ELSE LET res == Unwrap(l.n_result)
             n == IF res.kind = "Ok" THEN Unwrap(res.partitions) ELSE 0
             started == [i \in Flows |->
                            IF i < n
                            THEN NewLookup(PartitionName("t", i), "get_base_connection")
                            ELSE Idle]
         IN  \* the locals of the returned call are gone, its result is kept
             /\ NApply([NewNumber("done") EXCEPT !.n_result = l.n_result])
             /\ IF res.kind # "Ok"
                THEN /\ p_pc' = "done"
                     /\ partitions' = None
                     /\ p_result' = Some(PResult(res.kind, <<>>, res.cause,
                                                 res.error, res.message))
                     /\ UNCHANGED flowVars
                ELSE /\ partitions' = res.partitions
                     /\ p_pc' = IF n = 0 THEN "done" ELSE "join"
                     /\ p_result' = IF n = 0
                                    THEN Some(PResult("Ok", <<>>, None, None, None))
                                    ELSE None
                     /\ pc' = [i \in Flows |-> started[i].pc]
                     /\ topic' = [i \in Flows |-> started[i].topic]
                     /\ UNCHANGED <<conn, is_authoritative, proxied_query,
                                    broker_address, max_retries, response, result,
                                    request, nRequests, nResponses, nRedirects,
                                    nDisconnects,
                                    nNotReady, delay_ms, proxy_seen, acquired>>

NStep(l) == \E next \in {l} : AfterCount(next) /\ UNCHANGED fanEvents

\* let mut connection = self.manager.get_base_connection().await?; first request
NGetBaseConnectionOk ==
    /\ NPolled /\ n_pc = "get_base_connection"
    /\ NStep(NSent([NewNumber("start") EXCEPT !.n_connects = 1], "await_lookup"))

NGetBaseConnectionErr ==
    /\ NPolled /\ n_pc = "get_base_connection"
    /\ \E e \in ConnectionErrors :
          NStep(NReturn(NLocal, NResult("Connection", None, Some(e), None, None)))

\* Ok(res) => res, of the first send or of the re-send
NRecvResponse ==
    /\ NPolled /\ n_pc \in {"await_lookup", "await_relookup"}
    /\ \E r \in MetadataResponses, l \in {NLocal} : NStep(NHandle(l, r))

\* Err(ConnectionError::Disconnected) of the first send
NDisconnected ==
    /\ NPolled /\ n_pc = "await_lookup"
    /\ n_disconnects < MaxDisconnects
    /\ NStep([NLocal EXCEPT !.n_pc = "reconnect", !.n_disconnects = @ + 1])

\* Err(e) => return Err(e.into()) of the first send; `?` of the re-send
NSendErr ==
    /\ NPolled
    /\ \E e \in ConnectionErrors :
          /\ \/ n_pc = "await_lookup" /\ e # "Disconnected"
             \/ n_pc = "await_relookup"
          /\ NStep(NReturn(NLocal, NResult("Connection", None, Some(e), None, None)))

\* connection = self.manager.get_base_connection().await?; re-send
NReconnectOk ==
    /\ NPolled /\ n_pc = "reconnect"
    /\ NStep(NSent([NLocal EXCEPT !.connection = BaseConnection,
                                  !.n_connects = @ + 1], "await_relookup"))

NReconnectErr ==
    /\ NPolled /\ n_pc = "reconnect"
    /\ \E e \in ConnectionErrors :
          NStep(NReturn(NLocal, NResult("Connection", None, Some(e), None, None)))

\* Exe::delay(Duration::from_millis(500)).await; continue
NDelayElapsed ==
    /\ NPolled /\ n_pc = "delay"
    /\ NStep(NSent([NLocal EXCEPT !.n_response = None, !.n_delay_ms = @ + NDelayMillis],
                   "await_lookup"))

vars == <<flowVars, numberVars, outerVars, fanEvents>>


\* no lookup_topic call runs
NoFlows ==
    /\ pc = [i \in Flows |-> Idle.pc]
    /\ topic = [i \in Flows |-> Idle.topic]
    /\ conn = [i \in Flows |-> Idle.conn]
    /\ is_authoritative = [i \in Flows |-> Idle.is_authoritative]
    /\ proxied_query = [i \in Flows |-> Idle.proxied_query]
    /\ broker_address = [i \in Flows |-> Idle.broker_address]
    /\ max_retries = [i \in Flows |-> Idle.max_retries]
    /\ response = [i \in Flows |-> Idle.response]
    /\ result = [i \in Flows |-> Idle.result]
    /\ request = [i \in Flows |-> Idle.request]
    /\ nRequests = [i \in Flows |-> Idle.nRequests]
    /\ nResponses = [i \in Flows |-> Idle.nResponses]
    /\ nRedirects = [i \in Flows |-> Idle.nRedirects]
    /\ nDisconnects = [i \in Flows |-> Idle.nDisconnects]
    /\ nNotReady = [i \in Flows |-> Idle.nNotReady]
    /\ delay_ms = [i \in Flows |-> Idle.delay_ms]
    /\ proxy_seen = [i \in Flows |-> Idle.proxy_seen]
    /\ acquired = [i \in Flows |-> Idle.acquired]

\* the lookup_partitioned_topic_number call is at `label`
NumberAt(label) ==
    /\ n_pc = label
    /\ connection = BaseConnection
    /\ n_max_retries = MaxRetriesNumber
    /\ n_response = None
    /\ n_result = None
    /\ n_requests = 0
    /\ n_connects = 0
    /\ n_disconnects = 0
    /\ n_not_ready = 0
    /\ n_delay_ms = 0

\* lookup_topic("t") has been called
Init ==
    /\ pc = [i \in Flows |-> IF i = 0 THEN "get_base_connection" ELSE Idle.pc]
    /\ topic = [i \in Flows |-> IF i = 0 THEN "t" ELSE Idle.topic]
    /\ conn = [i \in Flows |-> Idle.conn]
    /\ is_authoritative = [i \in Flows |-> Idle.is_authoritative]
    /\ proxied_query = [i \in Flows |-> Idle.proxied_query]
    /\ broker_address = [i \in Flows |-> Idle.broker_address]
    /\ max_retries = [i \in Flows |-> Idle.max_retries]
    /\ response = [i \in Flows |-> Idle.response]
    /\ result = [i \in Flows |-> Idle.result]
    /\ request = [i \in Flows |-> Idle.request]
    /\ nRequests = [i \in Flows |-> Idle.nRequests]
    /\ nResponses = [i \in Flows |-> Idle.nResponses]
    /\ nRedirects = [i \in Flows |-> Idle.nRedirects]
    /\ nDisconnects = [i \in Flows |-> Idle.nDisconnects]
    /\ nNotReady = [i \in Flows |-> Idle.nNotReady]
    /\ delay_ms = [i \in Flows |-> Idle.delay_ms]
    /\ proxy_seen = [i \in Flows |-> Idle.proxy_seen]
    /\ acquired = [i \in Flows |-> Idle.acquired]
    /\ NumberAt("idle")
    /\ p_pc = "direct"
    /\ partitions = None
    /\ p_result = None
    /\ fanEvents = 0

Next ==
    \/ GetBaseConnectionOk(0)
    \/ \E e \in ConnectionErrors : GetBaseConnectionErr(0, e)
    \/ RecvLookupResponse(0, LookupResponses)
    \/ LookupDisconnected(0)
    \/ \E e \in ConnectionErrors : LookupSendErr(0, e)
    \/ ReconnectOk(0)
    \/ \E e \in ConnectionErrors : ReconnectErr(0, e)
    \/ DelayElapsed(0)
    \/ RedirectConnectOk(0)
    \/ \E e \in ConnectionErrors : RedirectConnectErr(0, e)
    \/ FinalConnectOk(0)
    \/ \E e \in ConnectionErrors : FinalConnectErr(0, e)

Spec == Init /\ [][Next]_vars

(* --------- lookup_partitioned_topic_number("t") called directly -------- *)
InitNumber ==
    /\ NoFlows
    /\ NumberAt("get_base_connection")
    /\ p_pc = "count_direct"
    /\ partitions = None
    /\ p_result = None
    /\ fanEvents = 0

NextNumber ==
    \/ NGetBaseConnectionOk
    \/ NGetBaseConnectionErr
    \/ NRecvResponse
    \/ NDisconnected
    \/ NSendErr
    \/ NReconnectOk
    \/ NReconnectErr
    \/ NDelayElapsed

SpecNumber == InitNumber /\ [][NextNumber]_vars

(* -------------- lookup_partitioned_topic("t") has been called ---------- *)
\* what the server answers to the lookups of a fan-out
FanResponses ==
    {LookupTopicResponse(Some("Connect"), None, None, Some(UrlWithPort), None,
                         None, None),
     LookupTopicResponse(Some("Redirect"), None, None, Some(UrlNoPort),
                         Some(UrlWithPort), Some(TRUE), Some(TRUE)),
     LookupTopicResponse(Some("Failed"), Some("ServiceNotReady"), Some("msg"),
                         None, None, None, None),
     LookupTopicResponse(Some("Failed"), Some("MetadataError"), None,
                         None, None, None, None),
     LookupTopicResponse(Some("Connect"), None, None, None, None, None, None),
     LookupTopicResponse(Some("Connect"), None, None, Some(UrlNoHost), None,
                         None, None)}

InitPartitioned ==
    /\ NoFlows
    /\ NumberAt("get_base_connection")
    /\ p_pc = "count"
    /\ partitions = None
    /\ p_result = None
    /\ fanEvents = 0

NextPartitioned ==
    \/ NextNumber
    \/ \E i \in Flows :
          \/ GetBaseConnectionOk(i)
          \/ \E e \in ConnectionErrors : GetBaseConnectionErr(i, e)
          \/ RecvLookupResponse(i, FanResponses)
          \/ LookupDisconnected(i)
          \/ \E e \in ConnectionErrors : LookupSendErr(i, e)
          \/ ReconnectOk(i)
          \/ \E e \in ConnectionErrors : ReconnectErr(i, e)
          \/ DelayElapsed(i)
          \/ RedirectConnectOk(i)
          \/ \E e \in ConnectionErrors : RedirectConnectErr(i, e)
          \/ FinalConnectOk(i)
          \/ \E e \in ConnectionErrors : FinalConnectErr(i, e)

SpecPartitioned == InitPartitioned /\ [][NextPartitioned]_vars

(* ------ lookup_topic("t") against a server that always redirects ------- *)
\* the Redirect responses lookup_topic can follow
RedirectAnswers ==
    {r \in LookupAnswers :
        /\ r.response = Some("Redirect")
        /\ convert_lookup_response(r) # None
        /\ ~BrokerUrlPanics(Unwrap(convert_lookup_response(r)))}

\* the counters of what happened stop at MaxCounted; the locals are untouched
Counted(l) ==
    [l EXCEPT !.nRequests = IF @ > MaxCounted THEN MaxCounted ELSE @,
              !.nResponses = IF @ > MaxCounted THEN MaxCounted ELSE @,
              !.nRedirects = IF @ > MaxCounted THEN MaxCounted ELSE @]

\* Ok(res) => res with a Redirect response, then the loop body
RedirectAnswered(i) ==
    /\ Polled(i) /\ pc[i] = "await_lookup"
    /\ \E r \in RedirectAnswers, l \in {Local(i)} :
          Step(i, Counted(HandleLookup(l, r)))

\* if redirect { conn = get_connection(&broker_address).await?; ...; continue }
RedirectFollowed(i) ==
    /\ Polled(i) /\ pc[i] = "redirect_connect"
    /\ Step(i, Counted(FollowRedirect(Local(i))))

NextRedirecting ==
    \/ GetBaseConnectionOk(0)
    \/ RedirectAnswered(0)
    \/ RedirectFollowed(0)

\* every connection is acquired and every request is answered in the end
SpecRedirecting == Init /\ [][NextRedirecting]_vars /\ WF_vars(NextRedirecting)

(* --------------- lookup_topic as a function of its input --------------- *)
\* what an await of lookup_topic resolves to: a connection, an error, a
\* response, or the end of the delay
Input(kind, error, r) == [kind |-> kind, error |-> error, response |-> r]

FanInputs ==
    {Input("connected", None, None), Input("elapsed", None, None)}
        \cup {Input("failed", Some(e), None) : e \in ConnectionErrors}
        \cup {Input("response", None, Some(r)) : r \in FanResponses}

\* the locals of a lookup_topic call after the await it is at resolved to x;
\* the locals themselves when x cannot resolve that await
SoloStep(l, x) ==
    LET failed == Return(l, ErrConnection(Unwrap(x.error)))
        refused == Return([l EXCEPT !.acquired = None],
                          ErrConnection(Unwrap(x.error)))
    IN  CASE l.pc = "get_base_connection" /\ x.kind = "connected" ->
                 Sent(NewLookup(l.topic, "start"), "await_lookup")
          [] l.pc = "get_base_connection" /\ x.kind = "failed" -> failed
          [] l.pc \in {"await_lookup", "await_relookup"} /\ x.kind = "response" ->
                 HandleLookup(l, Unwrap(x.response))
          [] l.pc = "await_lookup" /\ x.kind = "failed" ->
                 IF x.error = Some("Disconnected")
                 THEN [l EXCEPT !.pc = "reconnect", !.nDisconnects = @ + 1]
                 ELSE failed
          [] l.pc = "await_relookup" /\ x.kind = "failed" -> failed
          [] l.pc = "reconnect" /\ x.kind = "connected" ->
                 Sent([l EXCEPT !.conn = ConnectionTo(l.broker_address),
                                !.acquired = Some(l.broker_address)],
                      "await_relookup")
          [] l.pc = "reconnect" /\ x.kind = "failed" -> refused
          [] l.pc = "delay" /\ x.kind = "elapsed" ->
                 Sent([l EXCEPT !.response = None, !.delay_ms = @ + DelayMillis],
                      "await_lookup")
          [] l.pc = "redirect_connect" /\ x.kind = "connected" -> FollowRedirect(l)
          [] l.pc = "redirect_connect" /\ x.kind = "failed" -> refused
          [] l.pc = "final_connect" /\ x.kind = "connected" ->
                 Return([l EXCEPT !.acquired = Some(l.broker_address)],
                        OkAddress(l.broker_address))
          [] l.pc = "final_connect" /\ x.kind = "failed" -> refused
          [] OTHER -> l

(* ============================== claims ================================= *)
Min(a, b) == IF a < b THEN a ELSE b

\* a response with no lookup type or type Failed, answering ServiceNotReady
NotReadyResponse(r) ==
    /\ r.response \in {None, Some("Failed")}
    /\ r.error = Some("ServiceNotReady")

\* C1: in lookup_topic every ServiceNotReady failure received while budget
\* remains is retried after one 500ms delay and costs one unit of the budget
\* of 20; the first 20 are retried, and the 21st ends the call with
\* Query(ServiceNotReady, message of that response).
C1_NotReadyRetried ==
    \A i \in Flows :
        /\ nNotReady[i] <= 21
        /\ max_retries[i] = 20 - Min(nNotReady[i], 20)
        /\ delay_ms[i] = 500 * (IF pc[i] = "delay" THEN nNotReady[i] - 1
                                ELSE Min(nNotReady[i], 20))
        /\ pc[i] = "delay" => response[i] # None
        /\ \A r \in response[i] :
              NotReadyResponse(r) =>
                  IF nNotReady[i] <= 20
                  THEN pc[i] = "delay" /\ result[i] = None
                  ELSE /\ pc[i] = "done"
                       /\ result[i] = Some(ErrQuery(Some("ServiceNotReady"), r.message))
        /\ \A res \in result[i] :
              res.kind = "Query" /\ res.error = Some("ServiceNotReady")
                  => nNotReady[i] = 21

\* the 21st ServiceNotReady answer has ended the call
C1_Witness ==
    /\ nNotReady[0] = 21
    /\ delay_ms[0] = 10000
    /\ result[0] = Some(ErrQuery(Some("ServiceNotReady"), Some("msg")))

ExpectedHostPort(s, dflt) ==
    CASE s = "pulsar://a:6650" -> "a:6650"
      [] s = "pulsar://b" -> IF dflt = 6651 THEN "b:6651" ELSE "b:6650"
      [] OTHER -> "?"

\* C3: the broker_url of the address lookup_topic returns is host:port of the
\* TLS URL of the last response when it has one (default port 6651), else of
\* its plain URL (default port 6650), whatever came before in the chain.
C3_BrokerUrl ==
    \A i \in Flows : \A res \in result[i] :
        res.kind = "Ok" =>
            \E r \in response[i] :
                /\ r.response = Some("Connect")
                /\ Unwrap(res.address).broker_url =
                      IF r.broker_service_url_tls # None
                      THEN ExpectedHostPort(Unwrap(r.broker_service_url_tls), 6651)
                      ELSE ExpectedHostPort(Unwrap(r.broker_service_url), 6650)

\* a proxied chain returned the TLS host with the default TLS port
C3_Witness ==
    /\ proxied_query[0]
    /\ \E r \in response[0] :
          /\ r.broker_service_url = Some("pulsar://a:6650")
          /\ r.broker_service_url_tls = Some("pulsar://b")
    /\ \E res \in result[0] :
          res.kind = "Ok" /\ Unwrap(res.address).broker_url = "b:6651"

\* flow i sends a lookup request in this step
Sends(i) == nRequests'[i] = nRequests[i] + 1

\* C4 as stated, its last part: a Redirect followed by a non-redirect
\* success resolves after exactly two lookup requests.
C4_TwoRequests ==
    \A i \in Flows : \A res \in result[i] :
        res.kind = "Ok" /\ nRedirects[i] = 1 /\ nNotReady[i] = 0
            => nRequests[i] = 2

\* C4 amended: the first lookup request carries is_authoritative = false, a
\* request sent after a Redirect carries the authoritative flag of that
\* response (false when absent) on a connection acquired for the address
\* built from it, every other request repeats the flag of the request before
\* it; a Redirect followed by a success takes two requests plus one re-sent
\* request for every send that failed with Disconnected.
C4_Authoritative ==
    /\ [](\A i \in Flows : \A res \in result[i] :
            res.kind = "Ok" /\ nRedirects[i] = 1 /\ nNotReady[i] = 0
                => nRequests[i] = 2 + nDisconnects[i])
    /\ [][\A i \in Flows : Sends(i) /\ pc[i] # "idle" =>
            \E q \in request'[i] :
                /\ q.topic = topic[i]
                /\ pc[i] = "get_base_connection" => ~q.is_authoritative
                /\ pc[i] = "redirect_connect" =>
                      \E r \in response[i] :
                          /\ r.response = Some("Redirect")
                          /\ q.is_authoritative = (r.authoritative = Some(TRUE))
                          /\ q.conn = [base |-> FALSE, address |-> broker_address[i]]
                /\ pc[i] \in {"delay", "reconnect"} =>
                      \E before \in request[i] :
                          q.is_authoritative = before.is_authoritative]_vars

\* an authoritative Redirect, then a success: two requests, the second flagged
C4_Witness ==
    /\ nRedirects[0] = 1 /\ nRequests[0] = 2 /\ nDisconnects[0] = 0
    /\ \E q \in request[0] : q.is_authoritative /\ ~q.conn.base
    /\ \E res \in result[0] : res.kind = "Ok"

\* C5: a Disconnected send makes lookup_topic acquire a connection to the
\* address it is currently talking to (the base address before any redirect,
\* the redirect target after one) and re-send the request with the same flag
\* once, the budget untouched; a failed reconnect or re-send, or another
\* transport error on the first send, ends the call with a Connection error.
C5_Reconnect ==
    [][\A i \in Flows :
        /\ pc[i] = "await_lookup" /\ pc'[i] = "reconnect" =>
              /\ max_retries'[i] = max_retries[i]
              /\ nRequests'[i] = nRequests[i]
              /\ conn'[i] = conn[i]
        /\ pc[i] = "reconnect" /\ pc'[i] # "done" =>
              /\ pc'[i] = "await_relookup"
              /\ ~conn'[i].base
              /\ conn'[i].address = conn[i].address
              /\ nRedirects[i] = 0 => conn'[i].address.url = base_url
              /\ nRequests'[i] = nRequests[i] + 1
              /\ max_retries'[i] = max_retries[i]
              /\ \E q \in request'[i], before \in request[i] :
                    /\ q.conn = conn'[i]
                    /\ q.topic = before.topic
                    /\ q.is_authoritative = before.is_authoritative
        /\ pc[i] = "await_relookup" => pc'[i] # "reconnect" /\ ~Sends(i)
        /\ /\ pc[i] \in {"await_lookup", "reconnect", "await_relookup"}
           /\ pc'[i] = "done" /\ response'[i] = None
           => \E res \in result'[i] :
                 /\ res.kind = "Connection"
                 /\ pc[i] = "await_lookup" => res.cause # Some("Disconnected")
       ]_vars

\* after a redirect the connection dropped and the request was sent again
C5_Witness ==
    /\ pc[0] = "await_relookup" /\ nRedirects[0] = 1 /\ nDisconnects[0] = 1
    /\ conn[0].address.url # base_url
    /\ max_retries[0] = 19

\* C6 as stated: every response without a broker service URL, whatever its
\* lookup type, ends lookup_topic with NotFound.
C6_AnyTypeNotFound ==
    \A i \in Flows : \A r \in response[i] :
        r.broker_service_url = None
            => pc[i] = "done" /\ result[i] = Some(ErrNotFound)

\* C6 amended: every response of lookup type Connect or Redirect without a
\* broker service URL, whatever its error field, ends lookup_topic with
\* NotFound, never with Query and never by a panic.
C6_ConnectOrRedirectNotFound ==
    \A i \in Flows : \A r \in response[i] :
        r.broker_service_url = None /\ r.response \in {Some("Connect"), Some("Redirect")}
            => pc[i] = "done" /\ result[i] = Some(ErrNotFound)

\* a Redirect answer carried ServiceNotReady and no URL, with budget left
C6_Witness ==
    /\ max_retries[0] = 20
    /\ \E r \in response[0] :
          /\ r.response = Some("Redirect") /\ r.broker_service_url = None
          /\ r.error = Some("ServiceNotReady")
    /\ \E res \in result[0] : res.kind = "NotFound"

\* the name of partition i of topic "t"
ExpectedPartition(i) ==
    CASE i = 0 -> "t-partition-0"
      [] i = 1 -> "t-partition-1"
      [] i = 2 -> "t-partition-2"
      [] OTHER -> "t-partition-3"

\* flow i has returned an error
Failed(i) == \E res \in result[i] : res.kind # "Ok"

\* the error of lookup_topic result res is what lookup_partitioned_topic returned
Returned(res) ==
    \E pr \in p_result :
        /\ pr.kind = res.kind /\ pr.list = <<>>
        /\ pr.cause = res.cause /\ pr.error = res.error /\ pr.message = res.message

\* C7: with partition count N, lookup_partitioned_topic("t") runs one
\* lookup_topic per name "t-partition-i", i in [0, N), and no other, and when
\* all succeed it returns the N pairs (name, address) in ascending index order.
C7_OrderedPairs ==
    \A n \in partitions :
        /\ \A i \in Flows :
              IF i < n
              THEN /\ pc[i] # "idle" /\ topic[i] = ExpectedPartition(i)
                   /\ \A q \in request[i] : q.topic = ExpectedPartition(i)
              ELSE pc[i] = "idle" /\ request[i] = None
        /\ \A pr \in p_result :
              pr.kind = "Ok" =>
                  /\ Len(pr.list) = n
                  /\ \A k \in 1 .. n :
                        \E res \in result[k - 1] :
                            /\ res.kind = "Ok"
                            /\ pr.list[k] = <<ExpectedPartition(k - 1),
                                              Unwrap(res.address)>>

\* two partitions resolved to different addresses, returned in index order
C7_Witness ==
    \E pr \in p_result :
        /\ pr.kind = "Ok" /\ Len(pr.list) = 2
        /\ pr.list[1][1] = "t-partition-0" /\ pr.list[2][1] = "t-partition-1"
        /\ pr.list[1][2].proxy /\ ~pr.list[2][2].proxy

\* C8: lookup_partitioned_topic is all-or-nothing: once a partition lookup
\* has failed the call has returned the error of a failed lookup, and a list
\* is returned only when every partition lookup succeeded.
C8_AllOrNothing ==
    /\ (\E i \in Launched : Failed(i)) =>
          /\ p_pc = "done"
          /\ \E i \in Launched : Failed(i) /\ Returned(Unwrap(result[i]))
    /\ \A pr \in p_result :
          pr.kind = "Ok" =>
              \A i \in Launched : \E res \in result[i] : res.kind = "Ok"

\* partition 1 failed after partition 0 had succeeded
C8_Witness ==
    /\ p_pc = "done" /\ partitions = Some(2)
    /\ \E res \in result[0] : res.kind = "Ok"
    /\ Failed(1) /\ Returned(Unwrap(result[1]))

\* C9: the step in which a partition lookup fails completes
\* lookup_partitioned_topic with that error, whatever its index and whatever
\* the other lookups are doing; no second lookup gets to fail.
C9_FirstFailureReturned ==
    /\ [](Cardinality({i \in Launched : Failed(i)}) <= 1)
    /\ [][\A i \in Flows :
            /\ p_pc = "join" /\ result[i] = None /\ result'[i] # None
            /\ Unwrap(result'[i]).kind # "Ok"
            => /\ p_pc' = "done"
               /\ p_result' = Some(PResult(Unwrap(result'[i]).kind, <<>>,
                                           Unwrap(result'[i]).cause,
                                           Unwrap(result'[i]).error,
                                           Unwrap(result'[i]).message))]_vars

\* partition 1 failed while the request of partition 0 was still in flight
C9_Witness ==
    /\ p_pc = "done" /\ pc[0] = "await_lookup" /\ result[0] = None
    /\ Failed(1) /\ Returned(Unwrap(result[1]))

\* C10: lookup_partitioned_topic_number retries a ServiceNotReady failure
\* after one 500ms delay while its budget of 20 lasts, the 21st ending the
\* call with Query; a Disconnected send causes one reconnect and one re-send
\* that leave the budget alone, and a failure of either is a Connection error.
C10_NumberRecovery ==
    /\ [](/\ n_not_ready <= 21
          /\ n_max_retries = 20 - Min(n_not_ready, 20)
          /\ n_delay_ms = 500 * (IF n_pc = "delay" THEN n_not_ready - 1
                                 ELSE Min(n_not_ready, 20))
          /\ \A r \in n_response :
                NotReadyResponse(r) =>
                    IF n_not_ready <= 20
                    THEN n_pc = "delay" /\ n_result = None
                    ELSE /\ n_pc = "done"
                         /\ n_result = Some(NResult("Query", None, None,
                                                    Some("ServiceNotReady"), r.message)))
    /\ [][/\ n_pc = "await_lookup" /\ n_pc' = "reconnect" =>
                /\ n_max_retries' = n_max_retries
                /\ n_requests' = n_requests /\ n_connects' = n_connects
          /\ n_pc = "reconnect" /\ n_pc' # "done" =>
                /\ n_pc' = "await_relookup"
                /\ n_connects' = n_connects + 1
                /\ n_requests' = n_requests + 1
                /\ n_max_retries' = n_max_retries
          /\ n_pc = "await_relookup" =>
                /\ n_pc' # "reconnect"
                /\ n_requests' = n_requests /\ n_connects' = n_connects
          /\ /\ n_pc \in {"reconnect", "await_relookup"}
             /\ n_pc' = "done" /\ n_response' = None
             => \E res \in n_result' : res.kind = "Connection"
         ]_vars

\* one reconnect, then 21 ServiceNotReady answers
C10_Witness ==
    /\ n_disconnects = 1 /\ n_connects = 2 /\ n_not_ready = 21
    /\ n_requests = 22 /\ n_delay_ms = 10000
    /\ \E res \in n_result :
          res.kind = "Query" /\ res.error = Some("ServiceNotReady")

\* the server error a response's error code decodes to
ExpectedError(r) ==
    IF r.error \in {Some("ServiceNotReady"), Some("MetadataError")}
    THEN r.error ELSE {}

\* C11: a response of lookup_partitioned_topic_number whose lookup type is
\* present and not Failed and which has no partition count ends the call with
\* Query(decoded server error if any, message of that response); the call
\* returns a count only when the response it received carries that count.
C11_NoCountIsQuery ==
    /\ \A r \in n_response :
          r.response = {"Success"} /\ r.partitions = {} =>
              /\ n_pc = "done"
              /\ n_result = {[kind |-> "Query", partitions |-> {}, cause |-> {},
                              error |-> ExpectedError(r), message |-> r.message]}
    /\ \A res \in n_result :
          res.kind = "Ok" =>
              \E r \in n_response : r.partitions # {} /\ res.partitions = r.partitions

\* a Success response without count, with MetadataError and a message
C11_Witness ==
    /\ \E r \in n_response :
          /\ r.response = {"Success"} /\ r.partitions = {}
          /\ r.error = {"MetadataError"} /\ r.message = {"msg"}
    /\ \E res \in n_result :
          res.kind = "Query" /\ res.error = {"MetadataError"} /\ res.message = {"msg"}

\* C12: a lookup_topic call never aborts: whatever the server sends, a URL
\* without host component included, the call is still running or has returned
\* a BrokerAddress or a typed error (Connection, Query or NotFound).
C12_NeverAborts ==
    \A i \in Flows :
        /\ pc[i] # "panicked"
        /\ pc[i] = "done" =>
              \E res \in result[i] :
                  res.kind \in {"Ok", "Connection", "Query", "NotFound"}

\* flow i receives response r in this step
Receives(i, r) ==
    /\ pc[i] \in {"await_lookup", "await_relookup"}
    /\ response'[i] = {r}

\* C13: in lookup_topic a response with no lookup type or type Failed whose
\* error code is not ServiceNotReady (or is absent) ends the call in the step
\* that receives it with Query(decoded error, message): no delay, no request
\* and no change of the retry budget, whatever budget remains; a call that
\* has returned does nothing more.
C13_FatalFailure ==
    [][\A i \in Flows :
        /\ \A r \in response'[i] :
              /\ Receives(i, r)
              /\ r.response \in {{}, {"Failed"}}
              /\ r.error # {"ServiceNotReady"}
              => /\ pc'[i] = "done"
                 /\ result'[i] = {[kind |-> "Query", address |-> {}, cause |-> {},
                                   error |-> ExpectedError(r), message |-> r.message]}
                 /\ max_retries'[i] = max_retries[i]
                 /\ delay_ms'[i] = delay_ms[i]
                 /\ nRequests'[i] = nRequests[i]
        /\ pc[i] = "done" =>
              /\ pc'[i] = "done" /\ result'[i] = result[i]
              /\ nRequests'[i] = nRequests[i] /\ delay_ms'[i] = delay_ms[i]
      ]_vars

\* the first response was Failed with MetadataError: Query, the budget whole
C13_Witness ==
    /\ pc[0] = "done" /\ max_retries[0] = 20 /\ nRequests[0] = 1 /\ delay_ms[0] = 0
    /\ \E r \in response[0] : r.response = {"Failed"} /\ r.error = {"MetadataError"}
    /\ \E res \in result[0] :
          res.kind = "Query" /\ res.error = {"MetadataError"} /\ res.message = {"msg"}

\* flow i has built a BrokerAddress from the response it receives in this step
Builds(i, r) ==
    /\ Receives(i, r)
    /\ pc'[i] \in {"redirect_connect", "final_connect"}

\* C14: the BrokerAddress lookup_topic builds from a response has the base
\* URL as url and proxy = true when the chain is already proxied or the
\* response has proxy = true; otherwise its url is the TLS URL of the response
\* when it offers one, else its plain URL, and its proxy is false.
C14_ConnectUrl ==
    [][\A i \in Flows : \A r \in response'[i] :
        Builds(i, r) =>
            LET proxied == proxied_query[i] \/ r.proxy_through_service_url = {TRUE}
                own == IF r.broker_service_url_tls # {}
                       THEN r.broker_service_url_tls ELSE r.broker_service_url
            IN  /\ broker_address'[i].proxy = proxied
                /\ broker_address'[i].url.text =
                      IF proxied THEN "pulsar://base:6650"
                      ELSE IF own = {"pulsar://a:6650"} THEN "pulsar://a:6650"
                      ELSE IF own = {"pulsar://b"} THEN "pulsar://b"
                      ELSE "?"
      ]_vars

\* after a redirect without proxy, an answer offering a TLS URL: that URL is used
C14_Witness ==
    /\ pc[0] = "final_connect" /\ nRedirects[0] = 1 /\ ~proxied_query[0]
    /\ \E r \in response[0] :
          /\ r.broker_service_url = {"pulsar://a:6650"}
          /\ r.broker_service_url_tls = {"pulsar://b"}
    /\ broker_address[0].url.text = "pulsar://b" /\ ~broker_address[0].proxy

\* C15: when lookup_topic has built a BrokerAddress from a non-redirect
\* response, its next and last step is the acquisition of a connection to
\* that address, with no lookup request sent: the call returns that address
\* when the acquisition succeeds and a Connection error when it fails, and
\* every address returned is the one that last acquisition succeeded for.
C15_FinalConnect ==
    /\ [](\A i \in Flows : \A res \in result[i] :
            res.kind = "Ok" =>
                /\ res.address = acquired[i]
                /\ res.address = {broker_address[i]}
                /\ \E r \in response[i] : r.response = {"Connect"})
    /\ [][\A i \in Flows :
            /\ \A r \in response'[i] :
                  Builds(i, r) /\ r.response # {"Redirect"} =>
                      /\ pc'[i] = "final_connect"
                      /\ nRequests'[i] = nRequests[i]
            /\ pc[i] = "final_connect" =>
                  /\ pc'[i] = "done"
                  /\ nRequests'[i] = nRequests[i]
                  /\ broker_address'[i] = broker_address[i]
                  /\ IF acquired'[i] = {broker_address[i]}
                     THEN result'[i] = {[kind |-> "Ok", address |-> {broker_address[i]},
                                         cause |-> {}, error |-> {}, message |-> {}]}
                     ELSE \E res \in result'[i] :
                             /\ res.kind = "Connection" /\ res.address = {}
                             /\ res.cause \in {{"Disconnected"}, {"Io"}}
         ]_vars

\* the final acquisition failed after a redirect: Connection error, no address
C15_Witness ==
    /\ pc[0] = "done" /\ nRedirects[0] = 1
    /\ \E r \in response[0] : r.response = {"Connect"}
    /\ acquired[0] = {}
    /\ \E res \in result[0] : res.kind = "Connection" /\ res.cause = {"Io"}

\* C16: against a server that answers every query with a Redirect
\* lookup_topic can follow, every connection being acquired, the call never
\* returns, its retry budget stays at 20, and it receives a response and
\* sends a request again and again without end.
C16_RedirectsUnbounded ==
    /\ [](/\ pc[0] \notin {"done", "panicked"}
          /\ result[0] = {}
          /\ max_retries[0] = 20)
    /\ []<>(pc[0] = "redirect_connect")
    /\ []<>(pc[0] = "await_lookup")

\* more redirects were followed than the retry budget has units to lose in Spec
C16_Witness ==
    /\ nRedirects[0] >= 3 /\ nRequests[0] >= 3
    /\ pc[0] = "await_lookup" /\ max_retries[0] = 20

\* the locals of flow i other than the retry budget are left as they are
SameChain(i) ==
    /\ topic'[i] = topic[i]
    /\ conn'[i] = conn[i]
    /\ is_authoritative'[i] = is_authoritative[i]
    /\ proxied_query'[i] = proxied_query[i]
    /\ broker_address'[i] = broker_address[i]

\* C17: a ServiceNotReady retry of lookup_topic takes one unit off the retry
\* budget and leaves topic, conn, is_authoritative, proxied_query and
\* broker_address as they were; after the delay the request is sent again on
\* the same connection with the same topic and the same is_authoritative.
C17_RetryFrame ==
    [][\A i \in Flows :
        /\ \A r \in response'[i] :
              Receives(i, r) /\ pc'[i] = "delay" =>
                  /\ max_retries'[i] = max_retries[i] - 1
                  /\ SameChain(i)
                  /\ nRequests'[i] = nRequests[i]
        /\ pc[i] = "delay" =>
              /\ pc'[i] = "await_lookup"
              /\ max_retries'[i] = max_retries[i]
              /\ SameChain(i)
              /\ nRequests'[i] = nRequests[i] + 1
              /\ request'[i] = request[i]
              /\ request'[i] = {[conn |-> conn[i], topic |-> topic[i],
                                 is_authoritative |-> is_authoritative[i]]}
      ]_vars

\* a retry on the connection of an authoritative, proxied redirect
C17_Witness ==
    /\ pc[0] = "await_lookup" /\ nRedirects[0] = 1 /\ nNotReady[0] = 1
    /\ max_retries[0] = 19 /\ delay_ms[0] = 500 /\ nRequests[0] = 3
    /\ proxied_query[0] /\ ~conn[0].base
    /\ \E q \in request[0] : q.is_authoritative /\ q.conn = conn[0]

\* C18: the retry budget of a lookup_topic call stays within 0..20 and never
\* grows: no step raises it, no step lowers it at 0, and following a redirect
\* or reconnecting leaves it as it is; so the call takes at most 20 delays and
\* receives at most 21 responses beyond the redirects it follows.
C18_SharedBudget ==
    /\ [](\A i \in Flows :
            /\ max_retries[i] \in 0 .. 20
            /\ delay_ms[i] <= 20 * 500
            /\ nResponses[i] <= nRedirects[i] + 21)
    /\ [][\A i \in Flows :
            /\ pc[i] # "idle" /\ pc[i] # "get_base_connection" =>
                  /\ max_retries'[i] <= max_retries[i]
                  /\ max_retries'[i] >= max_retries[i] - 1
            /\ max_retries[i] = 0 => max_retries'[i] = 0
            /\ pc[i] \in {"redirect_connect", "reconnect"} \/ pc'[i] \in {"redirect_connect", "reconnect"}
                  => max_retries'[i] = max_retries[i]
         ]_vars

\* the budget spent on both sides of a redirect: 22 responses in all
C18_Witness ==
    /\ nRedirects[0] = 1 /\ nResponses[0] = 22 /\ max_retries[0] = 0
    /\ delay_ms[0] = 10000 /\ nNotReady[0] = 21 /\ pc[0] = "done"
    /\ ~conn[0].base

NoLookupYet ==
    \A i \in Flows : pc[i] = "idle" /\ nRequests[i] = 0 /\ request[i] = {}

\* C20: lookup_partitioned_topic starts no lookup_topic call while the
\* partition count is awaited; when lookup_partitioned_topic_number fails it
\* returns that error, and when the count is 0 it returns Ok of the empty
\* list, in both cases without any lookup_topic request having been sent.
C20_CountFirst ==
    /\ p_pc = "count" => NoLookupYet /\ p_result = {} /\ n_result = {}
    /\ \A res \in n_result :
          /\ res.kind # "Ok" =>
                /\ p_pc = "done" /\ NoLookupYet
                /\ p_result = {[kind |-> res.kind, list |-> <<>>, cause |-> res.cause,
                                error |-> res.error, message |-> res.message]}
          /\ res.kind = "Ok" /\ res.partitions = {0} =>
                /\ p_pc = "done" /\ NoLookupYet
                /\ p_result = {[kind |-> "Ok", list |-> <<>>, cause |-> {},
                                error |-> {}, message |-> {}]}
          /\ res.kind = "Ok" /\ res.partitions # {0} => p_pc # "count"

\* the count query failed with MetadataError: returned as it is, nothing sent
C20_Witness ==
    /\ p_pc = "done" /\ NoLookupYet
    /\ \E res \in n_result : res.kind = "Query" /\ res.error = {"MetadataError"}
    /\ \E pr \in p_result :
          pr.kind = "Query" /\ pr.error = {"MetadataError"} /\ pr.message = {"msg"}

====
